---- MODULE Spec2Model ----
(***************************************************************************)
(* A model of scripts/init_project.py: the ProjectInitializer run and the   *)
(* textual edits update_pyproject_toml applies to pyproject.toml.           *)
(*                                                                         *)
(* Text is a sequence of one-character strings.  The regular expressions   *)
(* of the script are modelled character by character, and re.sub's         *)
(* replacement argument is expanded as a template, as Python expands it.   *)
(***************************************************************************)
EXTENDS Integers, Sequences, FiniteSets, TLC

(***************************************************************************)
(* Bounds of the model.                                                    *)
(***************************************************************************)
\* Longest line the operator types at a prompt in the edit harness.
MaxInputLen == 2

(***************************************************************************)
(* Character classes.                                                      *)
(***************************************************************************)
UpperLetters ==
  <<"A", "B", "C", "D", "E", "F", "G", "H", "I", "J", "K", "L", "M",
    "N", "O", "P", "Q", "R", "S", "T", "U", "V", "W", "X", "Y", "Z">>

LowerLetters ==
  <<"a", "b", "c", "d", "e", "f", "g", "h", "i", "j", "k", "l", "m",
    "n", "o", "p", "q", "r", "s", "t", "u", "v", "w", "x", "y", "z">>

Digits == {"0", "1", "2", "3", "4", "5", "6", "7", "8", "9"}

Range(f) == {f[i] : i \in DOMAIN f}

IsUpper(c) == c \in Range(UpperLetters)

IsLetter(c) == c \in Range(UpperLetters) \cup Range(LowerLetters)

IsDigit(c) == c \in Digits

\* \d of a str pattern matches every Unicode decimal digit, not only 0-9;
\* "U+0661" stands for the one character ARABIC-INDIC DIGIT ONE.
OtherDecimals == {"U+0661"}

IsDecimal(c) == IsDigit(c) \/ c \in OtherDecimals

\* \s of the re module (ASCII whitespace the model can hold).
IsSpace(c) == c \in {" ", "\t", "\n", "\r", "\f"}

\* ["\'] of the patterns.
IsQuote(c) == c \in {"\"", "'"}

\* [a-zA-Z0-9\-_] of slugify.
IsSlugChar(c) == IsLetter(c) \/ IsDigit(c) \/ c \in {"-", "_"}

\* [a-zA-Z_] of slugify.
IsNameStart(c) == IsLetter(c) \/ c = "_"

\* str.lower() on one character.
LowerChar(c) ==
  IF IsUpper(c)
    THEN LowerLetters[CHOOSE i \in 1..26 : UpperLetters[i] = c]
    ELSE c

(***************************************************************************)
(* Sequence helpers.                                                       *)
(***************************************************************************)
\* s[i..j], empty when j < i.
Slice(s, i, j) == IF j < i THEN <<>> ELSE SubSeq(s, i, j)

\* The literal lit occurs in s at position i.
HasAt(s, i, lit) ==
  /\ i >= 1
  /\ i + Len(lit) - 1 <= Len(s)
  /\ \A k \in 1..Len(lit) : s[i + k - 1] = lit[k]

\* `lit in s` of Python.
Contains(s, lit) == \E i \in 1..Len(s) : HasAt(s, i, lit)

\* The first position at or after i that holds no whitespace (Len(s)+1 if none):
\* where a greedy \s* started at i ends.
SkipSpace(s, i) ==
  CHOOSE j \in i..(Len(s) + 1) :
    /\ \A k \in i..(j - 1) : IsSpace(s[k])
    /\ (j = Len(s) + 1 \/ ~IsSpace(s[j]))

\* The first position at or after i that holds a quote (Len(s)+1 if none):
\* where a greedy [^"\']* started at i ends.
SkipNonQuote(s, i) ==
  CHOOSE j \in i..(Len(s) + 1) :
    /\ \A k \in i..(j - 1) : ~IsQuote(s[k])
    /\ (j = Len(s) + 1 \/ IsQuote(s[j]))

\* The first position at or after i that holds c (Len(s)+1 if none).
FirstOf(s, i, c) ==
  CHOOSE j \in i..(Len(s) + 1) :
    /\ \A k \in i..(j - 1) : s[k] # c
    /\ (j = Len(s) + 1 \/ s[j] = c)

\* ^ under re.MULTILINE.
AtLineStart(s, i) == i = 1 \/ s[i - 1] = "\n"

\* str.strip().
Strip(s) ==
  IF \A k \in 1..Len(s) : IsSpace(s[k])
    THEN <<>>
    ELSE LET a == CHOOSE i \in 1..Len(s) :
                    ~IsSpace(s[i]) /\ \A k \in 1..(i - 1) : IsSpace(s[k])
             b == CHOOSE j \in 1..Len(s) :
                    ~IsSpace(s[j]) /\ \A k \in (j + 1)..Len(s) : IsSpace(s[k])
         IN  SubSeq(s, a, b)

\* The lines of s, split at "\n" (str.split("\n")).
RECURSIVE SplitLines(_)
SplitLines(s) ==
  LET n == FirstOf(s, 1, "\n")
  IN  IF n > Len(s)
        THEN <<s>>
        ELSE <<Slice(s, 1, n - 1)>> \o SplitLines(Slice(s, n + 1, Len(s)))

\* Every sequence over alphabet A of length at most n.
StringsOver(A, n) == UNION {[1..k -> A] : k \in 0..n}

(***************************************************************************)
(* Literals of the script.                                                 *)
(***************************************************************************)
kName == <<"n", "a", "m", "e">>

kDescription == <<"d", "e", "s", "c", "r", "i", "p", "t", "i", "o", "n">>

kRequiresPython ==
  <<"r", "e", "q", "u", "i", "r", "e", "s", "-", "p", "y", "t", "h", "o", "n">>

kAuthors == <<"a", "u", "t", "h", "o", "r", "s">>

kPackage == <<"p", "a", "c", "k", "a", "g", "e">>

kPackages == <<"p", "a", "c", "k", "a", "g", "e", "s">>

kProjectHeader == <<"[", "p", "r", "o", "j", "e", "c", "t", "]">>

\* "packages = [" of the membership test.
kPackagesLiteral == <<"p", "a", "c", "k", "a", "g", "e", "s", " ", "=", " ", "[">>

\* "python-repo-template", the name the template repository carries.
kTemplateName ==
  <<"p", "y", "t", "h", "o", "n", "-", "r", "e", "p", "o", "-",
    "t", "e", "m", "p", "l", "a", "t", "e">>

\* The version get_python_version falls back to.
kDefaultVersion == <<"3", ".", "1", "2">>

(***************************************************************************)
(* The replacement templates: the f-strings handed to re.sub as repl.      *)
(***************************************************************************)
NameTemplate(slug) ==
  <<"n", "a", "m", "e", " ", "=", " ", "\"">> \o slug \o <<"\"">>

DescriptionTemplate(description) ==
  <<"d", "e", "s", "c", "r", "i", "p", "t", "i", "o", "n", " ", "=", " ", "\"">>
    \o description \o <<"\"">>

RequiresTemplate(version) ==
  <<"r", "e", "q", "u", "i", "r", "e", "s", "-", "p", "y", "t", "h", "o", "n",
    " ", "=", " ", "\"", ">", "=">> \o version \o <<"\"">>

AuthorsTemplate(author, email) ==
  <<"a", "u", "t", "h", "o", "r", "s", " ", "=", " ", "[", " ", "{", " ",
    "n", "a", "m", "e", " ", "=", " ", "\"">> \o author
    \o <<"\"", ",", " ", "e", "m", "a", "i", "l", " ", "=", " ", "\"">> \o email
    \o <<"\"", " ", "}", " ", "]">>

PackageTemplate(package_name) ==
  <<"p", "a", "c", "k", "a", "g", "e", " ", "=", " ", "\"">>
    \o package_name \o <<"\"">>

PackagesTemplate(package_name) ==
  <<"p", "a", "c", "k", "a", "g", "e", "s", " ", "=", " ", "[", "{",
    "i", "n", "c", "l", "u", "d", "e", " ", "=", " ", "\"">>
    \o package_name \o <<"\"", "}", "]">>

\* '\\1packages = [{include = "..."}]\\2'
PackagesInsertTemplate(package_name) ==
  <<"\\", "1">> \o PackagesTemplate(package_name) \o <<"\\", "2">>

(***************************************************************************)
(* re.sub: template expansion and global substitution.                     *)
(***************************************************************************)
\* The result of an operation that may raise: err, or the text it returns.
Raised == [err |-> TRUE, text |-> <<>>]

Returned(text) == [err |-> FALSE, text |-> text]

Cat(head, r) == IF r.err THEN r ELSE Returned(head \o r.text)

\* The characters the escapes \a \b \f \n \r \t \v \\ of a template stand for
\* (BEL, BS and VT are written by name: the model holds no such character).
EscapeValue(c) ==
  CASE c = "n" -> "\n"
    [] c = "t" -> "\t"
    [] c = "r" -> "\r"
    [] c = "f" -> "\f"
    [] c = "\\" -> "\\"
    [] c = "a" -> "BEL"
    [] c = "b" -> "BS"
    [] c = "v" -> "VT"

IsEscapeLetter(c) == c \in {"n", "t", "r", "f", "\\", "a", "b", "v"}

DigitValue(c) ==
  CHOOSE n \in 0..9 :
    <<"0", "1", "2", "3", "4", "5", "6", "7", "8", "9">>[n + 1] = c

\* The group a match m holds under index n (0 is the whole match).
GroupOf(m, n) == IF n = 0 THEN m.whole ELSE m.groups[n]

\* The template t expanded from position i on for the match m, as
\* re._parser.parse_template and expand_template do: a backslash before a group
\* number refers to the group and raises when the pattern has no such group,
\* before a letter that names no escape, or at the end of the template, it
\* raises, and before any other character it stays as it is.  (An octal escape
\* of three digits, and \0 before a digit, are not modelled: no input holds one.)
RECURSIVE ExpandFrom(_, _, _)
ExpandFrom(t, i, m) ==
  IF i > Len(t) THEN Returned(<<>>)
  ELSE IF t[i] # "\\"
    THEN LET b == FirstOf(t, i, "\\")
         IN  Cat(Slice(t, i, b - 1), ExpandFrom(t, b, m))
  ELSE IF i = Len(t) THEN Raised
  ELSE LET c == t[i + 1]
       IN  IF c = "g"
             THEN IF /\ i + 4 <= Len(t)
                     /\ t[i + 2] = "<"
                     /\ IsDigit(t[i + 3])
                     /\ t[i + 4] = ">"
                     /\ DigitValue(t[i + 3]) <= Len(m.groups)
                    THEN Cat(GroupOf(m, DigitValue(t[i + 3])),
                             ExpandFrom(t, i + 5, m))
                    ELSE Raised
           ELSE IF c = "0" THEN Cat(<<"NUL">>, ExpandFrom(t, i + 2, m))
           ELSE IF IsDigit(c)
             THEN IF i + 2 <= Len(t) /\ IsDigit(t[i + 2])
                    THEN LET n == 10 * DigitValue(c) + DigitValue(t[i + 2])
                         IN  IF n <= Len(m.groups)
                               THEN Cat(GroupOf(m, n), ExpandFrom(t, i + 3, m))
                               ELSE Raised
                    ELSE IF DigitValue(c) <= Len(m.groups)
                           THEN Cat(GroupOf(m, DigitValue(c)),
                                    ExpandFrom(t, i + 2, m))
                           ELSE Raised
           ELSE IF IsEscapeLetter(c)
             THEN Cat(<<EscapeValue(c)>>, ExpandFrom(t, i + 2, m))
           ELSE IF IsLetter(c) THEN Raised
           ELSE Cat(<<"\\", c>>, ExpandFrom(t, i + 2, m))

\* The match of a pattern at a position: its last position (0: no match there)
\* and its groups.
NoMatch == [end |-> 0, groups |-> <<>>]

\* s with the leftmost non-overlapping matches replaced, from position i on;
\* matches[k] is the match that starts at k and repls[k] its replacement.
RECURSIVE Splice(_, _, _, _)
Splice(s, matches, repls, i) ==
  IF \A k \in i..Len(s) : matches[k].end = 0
    THEN Slice(s, i, Len(s))
    ELSE LET m == CHOOSE k \in i..Len(s) :
                    /\ matches[k].end > 0
                    /\ \A j \in i..(k - 1) : matches[j].end = 0
         IN  Slice(s, i, m - 1) \o repls[m]
               \o Splice(s, matches, repls, matches[m].end + 1)

\* re.sub(pattern, t, s): the template is compiled first (for a pattern of
\* ngroups groups), which raises on a bad template whether or not the pattern
\* occurs; then every match is replaced by the template expanded for it.
ReSub(s, matches, t, ngroups) ==
  IF ExpandFrom(t, 1, [whole |-> <<>>, groups |-> [k \in 1..ngroups |-> <<>>]]).err
    THEN Raised
    ELSE Returned(Splice(s, matches,
           [i \in 1..Len(s) |->
              IF matches[i].end > 0
                THEN ExpandFrom(t, 1, [whole |-> Slice(s, i, matches[i].end),
                                       groups |-> matches[i].groups]).text
                ELSE <<>>],
           1))

(***************************************************************************)
(* The patterns.                                                           *)
(***************************************************************************)
\* key\s*=\s*["\'][^"\']{minLen,}["\'] at position i: the match, its one group
\* the quoted value.  Every quantifier is greedy and is followed by a character
\* it cannot take, so the match is the only one at i.
QuotedAssignAt(s, i, key, minLen) ==
  IF ~HasAt(s, i, key) THEN NoMatch
  ELSE LET a == SkipSpace(s, i + Len(key))
       IN  IF a > Len(s) \/ s[a] # "=" THEN NoMatch
           ELSE LET b == SkipSpace(s, a + 1)
                IN  IF b > Len(s) \/ ~IsQuote(s[b]) THEN NoMatch
                    ELSE LET c == SkipNonQuote(s, b + 1)
                         IN  IF c > Len(s) \/ c - (b + 1) < minLen
                               THEN NoMatch
                               ELSE [end |-> c,
                                     groups |-> <<Slice(s, b + 1, c - 1)>>]

\* ^key\s*=\s*["\'][^"\']{minLen,}["\'] under re.MULTILINE.
LineAssignAt(s, i, key, minLen) ==
  IF AtLineStart(s, i) THEN QuotedAssignAt(s, i, key, minLen) ELSE NoMatch

\* key\s*=\s*\[.*?\] under re.DOTALL at position i: up to the first "]".
BracketAssignAt(s, i, key) ==
  IF ~HasAt(s, i, key) THEN NoMatch
  ELSE LET a == SkipSpace(s, i + Len(key))
       IN  IF a > Len(s) \/ s[a] # "=" THEN NoMatch
           ELSE LET b == SkipSpace(s, a + 1)
                IN  IF b > Len(s) \/ s[b] # "[" THEN NoMatch
                    ELSE LET c == FirstOf(s, b + 1, "]")
                         IN  IF c > Len(s) THEN NoMatch
                             ELSE [end |-> c,
                                   groups |-> <<Slice(s, b + 1, c - 1)>>]

\* (\[project\][^\[]*?)(\n\[|\Z) under re.DOTALL at position i: the lazy run
\* takes no "[", so the match ends at the first "[" after the header when a
\* newline stands right before it, at the end of the text when no "[" follows,
\* and there is no match otherwise.
ProjectSectionAt(s, i) ==
  IF ~HasAt(s, i, kProjectHeader) THEN NoMatch
  ELSE LET h == i + Len(kProjectHeader)
           p == FirstOf(s, h, "[")
       IN  IF p > Len(s)
             THEN [end |-> Len(s), groups |-> <<Slice(s, i, Len(s)), <<>>>>]
           ELSE IF p - 1 >= h /\ s[p - 1] = "\n"
             THEN [end |-> p, groups |-> <<Slice(s, i, p - 2), <<"\n", "[">>>>]
           ELSE NoMatch

LineAssignMatches(s, key, minLen) ==
  [i \in 1..Len(s) |-> LineAssignAt(s, i, key, minLen)]

QuotedAssignMatches(s, key, minLen) ==
  [i \in 1..Len(s) |-> QuotedAssignAt(s, i, key, minLen)]

BracketAssignMatches(s, key) == [i \in 1..Len(s) |-> BracketAssignAt(s, i, key)]

ProjectSectionMatches(s) == [i \in 1..Len(s) |-> ProjectSectionAt(s, i)]

\* re.search: the leftmost position a match starts at (0: none).
Search(matches) ==
  IF \E i \in DOMAIN matches : matches[i].end > 0
    THEN CHOOSE i \in DOMAIN matches :
           matches[i].end > 0 /\ \A k \in 1..(i - 1) : matches[k].end = 0
    ELSE 0

(***************************************************************************)
(* slugify, pythonize_package_name, get_python_version.                    *)
(***************************************************************************)
\* re.sub(r"[^a-zA-Z0-9\-_]+", "-", s): every run of other characters becomes
\* one hyphen.
RECURSIVE CollapseRuns(_)
CollapseRuns(s) ==
  IF s = <<>> THEN <<>>
  ELSE IF IsSlugChar(s[1]) THEN <<s[1]>> \o CollapseRuns(Tail(s))
  ELSE LET j == CHOOSE n \in 1..(Len(s) + 1) :
                  /\ \A k \in 1..(n - 1) : ~IsSlugChar(s[k])
                  /\ (n = Len(s) + 1 \/ IsSlugChar(s[n]))
       IN  <<"-">> \o CollapseRuns(Slice(s, j, Len(s)))

\* str.strip("-").
StripHyphens(s) ==
  IF \A k \in 1..Len(s) : s[k] = "-"
    THEN <<>>
    ELSE LET a == CHOOSE i \in 1..Len(s) :
                    s[i] # "-" /\ \A k \in 1..(i - 1) : s[k] = "-"
             b == CHOOSE j \in 1..Len(s) :
                    s[j] # "-" /\ \A k \in (j + 1)..Len(s) : s[k] = "-"
         IN  SubSeq(s, a, b)

\* re.sub(r"^[^a-zA-Z_]+", "", s).
DropLeadingNonName(s) ==
  LET j == CHOOSE n \in 1..(Len(s) + 1) :
             /\ \A k \in 1..(n - 1) : ~IsNameStart(s[k])
             /\ (n = Len(s) + 1 \/ IsNameStart(s[n]))
  IN  Slice(s, j, Len(s))

slugify(text) ==
  LET lowered == [k \in 1..Len(text) |-> LowerChar(text[k])]
      slug == StripHyphens(CollapseRuns(lowered))
  IN  IF slug # <<>> /\ ~IsNameStart(slug[1])
        THEN DropLeadingNonName(slug)
        ELSE slug

pythonize_package_name(package_name) == slugify(package_name)

\* re.match(r"^3\.\d+$", version).
IsVersion(v) ==
  /\ Len(v) >= 3
  /\ v[1] = "3"
  /\ v[2] = "."
  /\ \A k \in 3..Len(v) : IsDecimal(v[k])

\* prompt_with_default: what the prompt returns for the typed line; Reprompt
\* when it asks again ("This field is required.").
Reprompt == [again |-> TRUE, value |-> <<>>]

prompt_with_default(typed, default, allow_empty) ==
  LET response == Strip(typed)
  IN  IF response # <<>> THEN [again |-> FALSE, value |-> response]
      ELSE IF default # <<>> THEN [again |-> FALSE, value |-> default]
      ELSE IF allow_empty THEN [again |-> FALSE, value |-> <<>>]
      ELSE Reprompt

\* get_python_version, for the typed line and the interpreter's own version.
get_python_version(typed, current_version) ==
  LET version == Strip(prompt_with_default(typed, current_version, FALSE).value)
  IN  IF IsVersion(version) THEN version ELSE kDefaultVersion

(***************************************************************************)
(* The edits of update_pyproject_toml, each a re.sub on the content.       *)
(***************************************************************************)
\* An edit raises re.error when the operator's text makes a bad template.
SetName(content, name) ==
  ReSub(content, LineAssignMatches(content, kName, 1),
        NameTemplate(slugify(name)), 0)

SetDescription(content, description) ==
  ReSub(content, LineAssignMatches(content, kDescription, 0),
        DescriptionTemplate(description), 0)

SetRequiresPython(content, python_version) ==
  ReSub(content, LineAssignMatches(content, kRequiresPython, 1),
        RequiresTemplate(python_version), 0)

\* Skipped when the author is empty.
SetAuthors(content, author, email) ==
  IF author = <<>>
    THEN Returned(content)
    ELSE ReSub(content, BracketAssignMatches(content, kAuthors),
               AuthorsTemplate(author, email), 0)

SetPackage(content, package_name) ==
  ReSub(content, QuotedAssignMatches(content, kPackage, 1),
        PackageTemplate(package_name), 0)

\* Done only for the "package" structure.
SetPackages(content, package_name) ==
  IF ~Contains(content, kPackagesLiteral)
    THEN ReSub(content, ProjectSectionMatches(content),
               PackagesInsertTemplate(package_name), 2)
    ELSE ReSub(content, BracketAssignMatches(content, kPackages),
               PackagesTemplate(package_name), 0)

\* get_project_name on a file that exists and holds content: the value of the
\* first ^name = "..." line, "" when there is none.
get_project_name(content) ==
  LET matches == LineAssignMatches(content, kName, 1)
      i == Search(matches)
  IN  IF i = 0 THEN <<>> ELSE matches[i].groups[1]

\* The value the description pattern reads back (the pattern of the
\* description edit with its value captured), "" when there is none.
ReadDescription(content) ==
  LET matches == LineAssignMatches(content, kDescription, 0)
      i == Search(matches)
  IN  IF i = 0 THEN <<>> ELSE matches[i].groups[1]

(***************************************************************************)
(* Documents and operator input the model draws from.                      *)
(***************************************************************************)
\* [project]
HeaderLine ==
  <<"[", "p", "r", "o", "j", "e", "c", "t", "]", "\n">>

\* name = "old"
BodyName ==
  <<"n", "a", "m", "e", " ", "=", " ", "\"", "o", "l", "d", "\"", "\n">>

\* name, description = "" and requires-python = ">=3.10"
BodyScalars ==
  <<"n", "a", "m", "e", " ", "=", " ", "\"", "o", "l", "d", "\"", "\n", "d",
    "e", "s", "c", "r", "i", "p", "t", "i", "o", "n", " ", "=", " ", "\"",
    "\"", "\n", "r", "e", "q", "u", "i", "r", "e", "s", "-", "p", "y", "t",
    "h", "o", "n", " ", "=", " ", "\"", ">", "=", "3", ".", "1", "0", "\"",
    "\n">>

\* name and authors = [{ name = "Old", email = "o@x" }]
BodyAuthor ==
  <<"n", "a", "m", "e", " ", "=", " ", "\"", "o", "l", "d", "\"", "\n", "a",
    "u", "t", "h", "o", "r", "s", " ", "=", " ", "[", "{", " ", "n", "a",
    "m", "e", " ", "=", " ", "\"", "O", "l", "d", "\"", ",", " ", "e", "m",
    "a", "i", "l", " ", "=", " ", "\"", "o", "@", "x", "\"", " ", "}", "]",
    "\n">>

\* name and an authors block of two entries that spans lines
BodyAuthors ==
  <<"n", "a", "m", "e", " ", "=", " ", "\"", "o", "l", "d", "\"", "\n", "a",
    "u", "t", "h", "o", "r", "s", " ", "=", " ", "[", "\n", "{", " ", "n",
    "a", "m", "e", " ", "=", " ", "\"", "A", "\"", " ", "}", ",", "\n", "{",
    " ", "n", "a", "m", "e", " ", "=", " ", "\"", "B", "\"", " ", "}", ",",
    "\n", "]", "\n">>

\* name and dependencies = [], as uv init writes it
BodyDependencies ==
  <<"n", "a", "m", "e", " ", "=", " ", "\"", "o", "l", "d", "\"", "\n", "d",
    "e", "p", "e", "n", "d", "e", "n", "c", "i", "e", "s", " ", "=", " ",
    "[", "]", "\n">>

\* [tool.towncrier] with package = "tpl"
TailTowncrier ==
  <<"[", "t", "o", "o", "l", ".", "t", "o", "w", "n", "c", "r", "i", "e",
    "r", "]", "\n", "p", "a", "c", "k", "a", "g", "e", " ", "=", " ", "\"",
    "t", "p", "l", "\"", "\n">>

\* [tool.x] with name = "idx", package = "tpl" and my-package = "x"
TailIndex ==
  <<"[", "t", "o", "o", "l", ".", "x", "]", "\n", "n", "a", "m", "e", " ",
    "=", " ", "\"", "i", "d", "x", "\"", "\n", "p", "a", "c", "k", "a", "g",
    "e", " ", "=", " ", "\"", "t", "p", "l", "\"", "\n", "m", "y", "-", "p",
    "a", "c", "k", "a", "g", "e", " ", "=", " ", "\"", "x", "\"", "\n">>

\* [tool.y] with packages=["a"], written without spaces
TailPackagesTight ==
  <<"[", "t", "o", "o", "l", ".", "y", "]", "\n", "p", "a", "c", "k", "a",
    "g", "e", "s", "=", "[", "\"", "a", "\"", "]", "\n">>

\* [tool.z] with packages = ["a"] and authors = ["Z"]
TailPackages ==
  <<"[", "t", "o", "o", "l", ".", "z", "]", "\n", "p", "a", "c", "k", "a",
    "g", "e", "s", " ", "=", " ", "[", "\"", "a", "\"", "]", "\n", "a", "u",
    "t", "h", "o", "r", "s", " ", "=", " ", "[", "\"", "Z", "\"", "]", "\n">>

\* The pyproject.toml of the template repository, cut to the keys the edits look for.
TemplateDoc ==
  <<"[", "p", "r", "o", "j", "e", "c", "t", "]", "\n", "n", "a", "m", "e",
    " ", "=", " ", "\"", "p", "y", "t", "h", "o", "n", "-", "r", "e", "p",
    "o", "-", "t", "e", "m", "p", "l", "a", "t", "e", "\"", "\n", "d", "e",
    "s", "c", "r", "i", "p", "t", "i", "o", "n", " ", "=", " ", "\"", "\"",
    "\n", "r", "e", "q", "u", "i", "r", "e", "s", "-", "p", "y", "t", "h",
    "o", "n", " ", "=", " ", "\"", ">", "=", "3", ".", "1", "2", "\"", "\n",
    "a", "u", "t", "h", "o", "r", "s", " ", "=", " ", "[", "{", " ", "n",
    "a", "m", "e", " ", "=", " ", "\"", "T", "\"", ",", " ", "e", "m", "a",
    "i", "l", " ", "=", " ", "\"", "t", "@", "x", "\"", " ", "}", "]", "\n",
    "\n", "[", "t", "o", "o", "l", ".", "t", "o", "w", "n", "c", "r", "i",
    "e", "r", "]", "\n", "p", "a", "c", "k", "a", "g", "e", " ", "=", " ",
    "\"", "t", "p", "l", "\"", "\n">>

\* A pyproject.toml that holds none of the keys the edits look for.
BareDoc ==
  <<"[", "p", "r", "o", "j", "e", "c", "t", "]", "\n", "v", "e", "r", "s",
    "i", "o", "n", " ", "=", " ", "\"", "1", "\"", "\n">>

\* What uv init writes, cut to the keys the edits look for.
UvInitDoc ==
  <<"[", "p", "r", "o", "j", "e", "c", "t", "]", "\n", "n", "a", "m", "e",
    " ", "=", " ", "\"", "d", "e", "m", "o", "\"", "\n", "d", "e", "s", "c",
    "r", "i", "p", "t", "i", "o", "n", " ", "=", " ", "\"", "A", "d", "d",
    "\"", "\n", "r", "e", "q", "u", "i", "r", "e", "s", "-", "p", "y", "t",
    "h", "o", "n", " ", "=", " ", "\"", ">", "=", "3", ".", "1", "2", "\"",
    "\n", "d", "e", "p", "e", "n", "d", "e", "n", "c", "i", "e", "s", " ",
    "=", " ", "[", "]", "\n">>


\* The [project] sections of the edit harness' documents.
Bodies == {<<>>, BodyName, BodyScalars, BodyAuthor, BodyAuthors, BodyDependencies}

\* What follows the [project] section: nothing, or another section.
Tails == {<<>>, TailTowncrier, TailIndex, TailPackagesTight, TailPackages}

\* With or without a blank line between the [project] section and what follows.
Separators == {<<>>, <<"\n">>}

EditDocs ==
  {HeaderLine \o body \o sep \o tail :
     body \in Bodies, sep \in Separators, tail \in Tails}

\* What a prompt that takes no empty answer can return: stripped, not empty.
Answers(alphabet) ==
  {s \in StringsOver(alphabet, MaxInputLen) : s # <<>> /\ Strip(s) = s}

NameAnswers == Answers({"A", "b", " ", "1"})

DescriptionAnswers == Answers({"d", "\"", "\\", "1"})

\* Lines typed at the Python-version prompt: empty (the default is taken),
\* 3.9 and 3.12, 3.9 with spaces around it, and lines that are no version.
VersionLines ==
  {<<>>, <<"3", ".", "9">>, <<"3", ".", "1", "2">>, <<" ", "3", ".", "9", " ">>,
   <<"3", ".">>, <<"4", ".", "0">>, <<"x">>, <<"3", ".", "U+0661">>}

AuthorAnswers == Answers({"J", "\\"})

EmailAnswers == {<<>>, <<"j", "@", "x">>}

PackageAnswers == Answers({"f", "]"})

\* The lines typed at the prompts of a whole run (an empty line takes the
\* default), the name the directory suggests and the interpreter's version.
RunNameLines == {<<>>, <<"A", " ", "b">>}

RunPackageLines == {<<>>, <<"p", "k", "g">>, <<"1">>}

RunStructureLines == {<<>>, <<"1">>, <<"2">>, <<"3">>}

RunVersionLines == {<<>>, <<"3", ".", "9">>, <<"x">>, <<"3", ".", "U+0661">>}

RunAuthorLines == {<<"J">>}

RunEmailLines == {<<>>, <<"j", "@", "x">>}

RunDescriptionLines == Answers({"d", "\\"})

SuggestedName == <<"D", "e", "m", "o">>

CurrentVersion == <<"3", ".", "1", "1">>

RunDocs == {TemplateDoc, BareDoc}

(***************************************************************************)
(* State.                                                                  *)
(***************************************************************************)
VARIABLES
  pc,        \* where the run stands
  disk,      \* pyproject.toml: whether it exists, and its text
  sentinel,  \* whether .project_initialized exists
  config,    \* the configuration gather_project_config returned
  content,   \* the text update_pyproject_toml holds in memory
  prev,      \* content before the last edit
  lastEdit,  \* the last edit applied to content
  raised,    \* whether the last edit raised
  done,      \* the setup steps this run has completed
  out,       \* the messages printed
  uv,        \* how uv init ended
  orig,      \* the text of pyproject.toml when update_pyproject_toml began
  typedVersion,        \* the line typed at the Python-version prompt
  python_package_name  \* the name create_project_structure gave the package

vars ==
  <<pc, disk, sentinel, config, content, prev, lastEdit, raised, done, out,
    uv, orig, typedVersion, python_package_name>>

NoFile == [exists |-> FALSE, text |-> <<>>]

File(text) == [exists |-> TRUE, text |-> text]

NoConfig ==
  [name |-> <<>>, package_name |-> <<>>, structure |-> "default",
   python_version |-> <<>>, author |-> <<>>, email |-> <<>>,
   description |-> <<>>]

\* structure_map.
StructureOf(choice) ==
  CASE choice = <<"1">> -> "default"
    [] choice = <<"2">> -> "package"
    [] choice = <<"3">> -> "library"

(***************************************************************************)
(* run, gather_project_config and initialize_project.                     *)
(***************************************************************************)
\* is_already_initialized; nameRead is what get_project_name returned.
is_already_initialized(nameRead) ==
  sentinel \/ (disk.exists /\ nameRead # kTemplateName)

\* run, to the call of gather_project_config.  get_project_name returns ""
\* when the file is missing or reading it raises.
Run_CheckInitialized ==
  /\ pc = "run"
  /\ \E readOk \in BOOLEAN :
       LET nameRead == IF disk.exists /\ readOk
                         THEN get_project_name(disk.text)
                         ELSE <<>>
       IN  IF is_already_initialized(nameRead)
             THEN /\ pc' = "confirm"
                  /\ out' = out \cup {"already_initialized"}
             ELSE /\ pc' = "gather"
                  /\ out' = out
  /\ UNCHANGED <<disk, sentinel, config, content, prev, lastEdit, raised,
                 done, uv, orig,
                 typedVersion, python_package_name>>

\* confirm: "y" goes on, "n" or an empty line ends the run.
Confirm ==
  /\ pc = "confirm"
  /\ \E yes \in BOOLEAN : pc' = IF yes THEN "gather" ELSE "exit"
  /\ UNCHANGED <<disk, sentinel, config, content, prev, lastEdit, raised,
                 done, out, uv, orig,
                 typedVersion, python_package_name>>

\* gather_project_config for the lines typed at its prompts.  A prompt that
\* asks again is answered by a later line, so only lines that end each prompt
\* are drawn.
GatherProjectConfig ==
  /\ pc = "gather"
  /\ \E nameLine \in RunNameLines, packageLine \in RunPackageLines,
        structureLine \in RunStructureLines, versionLine \in RunVersionLines,
        authorLine \in RunAuthorLines, emailLine \in RunEmailLines,
        descriptionLine \in RunDescriptionLines :
       LET name == Strip(prompt_with_default(nameLine, SuggestedName, FALSE).value)
           package_suggestion == slugify(name)
           package_typed ==
             Strip(prompt_with_default(packageLine, package_suggestion, TRUE).value)
           structure == IF Strip(structureLine) = <<>>
                          THEN <<"1">> ELSE Strip(structureLine)
           authorPrompt == prompt_with_default(authorLine, <<>>, FALSE)
           descriptionPrompt == prompt_with_default(descriptionLine, <<>>, FALSE)
       IN  /\ ~authorPrompt.again
           /\ ~descriptionPrompt.again
           /\ typedVersion' = versionLine
           /\ IF name = <<>>
                THEN /\ out' = out \cup {"cancelled"}
                     /\ pc' = "exit"
                     /\ config' = config
                ELSE /\ out' = out
                     /\ pc' = "initialize"
                     /\ config' =
                          [name |-> name,
                           package_name |->
                             IF package_typed = <<>>
                               THEN package_suggestion ELSE package_typed,
                           structure |-> StructureOf(structure),
                           python_version |->
                             get_python_version(versionLine, CurrentVersion),
                           author |-> Strip(authorPrompt.value),
                           email |->
                             Strip(prompt_with_default(emailLine, <<>>, TRUE).value),
                           description |-> Strip(descriptionPrompt.value)]
  /\ UNCHANGED <<disk, sentinel, content, prev, lastEdit, raised, done, uv,
                 orig, python_package_name>>

\* initialize_project without the return of its except clause: it falls
\* through to update_pyproject_toml.
AfterUvFailure_NoReturn == "read"

\* Where initialize_project goes after uv init raised CalledProcessError: it
\* returns to run, which goes on to its closing messages.
AfterUvFailure == "complete"

\* initialize_project, pyproject.toml missing: uv init runs.  It succeeds and
\* writes the file; or it exits with an error (CalledProcessError, caught),
\* having written the file or not; or subprocess.run raises something else
\* (uv is not installed), which nothing catches.
UvInit ==
  /\ pc = "initialize"
  /\ ~disk.exists
  /\ \E outcome \in {"ok", "CalledProcessError", "OSError"}, written \in BOOLEAN :
       /\ uv' = outcome
       /\ disk' = IF outcome = "ok" \/ (outcome = "CalledProcessError" /\ written)
                    THEN File(UvInitDoc) ELSE disk
       /\ pc' = CASE outcome = "ok" -> "read"
                  [] outcome = "CalledProcessError" -> AfterUvFailure
                  [] outcome = "OSError" -> "crashed"
       /\ out' = CASE outcome = "ok" -> out
                   [] outcome = "CalledProcessError" -> out \cup {"uv_init_failed"}
                   [] outcome = "OSError" -> out \cup {"traceback"}
  /\ UNCHANGED <<sentinel, config, content, prev, lastEdit, raised, done, orig,
                 typedVersion, python_package_name>>

\* initialize_project, pyproject.toml present: uv init is not run.
SkipUvInit ==
  /\ pc = "initialize"
  /\ disk.exists
  /\ pc' = "read"
  /\ UNCHANGED <<disk, sentinel, config, content, prev, lastEdit, raised,
                 done, out, uv, orig,
                 typedVersion, python_package_name>>

(***************************************************************************)
(* update_pyproject_toml.                                                  *)
(***************************************************************************)
\* update_pyproject_toml without its try/except: an exception raised in it
\* leaves initialize_project and run.
AfterUpdateFailure_Uncaught == "crashed"

\* Where control goes when a statement of the try block raises: the except
\* clause prints the failure, update_pyproject_toml returns and
\* initialize_project goes on to create_project_structure.
AfterUpdateFailure == "structure"

\* One statement of the try block that rebinds content to what re.sub
\* returned; when re.sub raised, the except clause reports it and the
\* function ends without writing (control goes to handler).
EditEffect(r, edit, next, handler) ==
  /\ prev' = content
  /\ lastEdit' = edit
  /\ raised' = r.err
  /\ IF r.err
       THEN /\ content' = content
            /\ out' = out \cup {"update_failed"}
            /\ pc' = handler
       ELSE /\ content' = r.text
            /\ out' = out
            /\ pc' = next

\* open(pyproject_path, "r") and f.read(): the text is read, or an exception
\* (permissions, I/O) goes to the except clause.
Update_Read ==
  /\ pc = "read"
  /\ \E ok \in BOOLEAN :
       IF ok /\ disk.exists
         THEN /\ content' = disk.text
              /\ orig' = disk.text
              /\ out' = out
              /\ pc' = "edit_name"
         ELSE /\ content' = content
              /\ orig' = disk.text
              /\ out' = out \cup {"update_failed"}
              /\ pc' = AfterUpdateFailure
  /\ prev' = disk.text
  /\ UNCHANGED <<disk, sentinel, config, lastEdit, raised, done, uv,
                 typedVersion, python_package_name>>

Update_SetName ==
  /\ pc = "edit_name"
  /\ EditEffect(SetName(content, config.name), "name", "edit_description",
                AfterUpdateFailure)
  /\ UNCHANGED <<disk, sentinel, config, done, uv, orig,
                 typedVersion, python_package_name>>

Update_SetDescription ==
  /\ pc = "edit_description"
  /\ EditEffect(SetDescription(content, config.description), "description",
                "edit_requires", AfterUpdateFailure)
  /\ UNCHANGED <<disk, sentinel, config, done, uv, orig,
                 typedVersion, python_package_name>>

Update_SetRequiresPython ==
  /\ pc = "edit_requires"
  /\ EditEffect(SetRequiresPython(content, config.python_version), "requires",
                "edit_authors", AfterUpdateFailure)
  /\ UNCHANGED <<disk, sentinel, config, done, uv, orig,
                 typedVersion, python_package_name>>

Update_SetAuthors ==
  /\ pc = "edit_authors"
  /\ EditEffect(SetAuthors(content, config.author, config.email), "authors",
                "edit_package", AfterUpdateFailure)
  /\ UNCHANGED <<disk, sentinel, config, done, uv, orig,
                 typedVersion, python_package_name>>

Update_SetPackage ==
  /\ pc = "edit_package"
  /\ EditEffect(SetPackage(content, config.package_name), "package",
                "edit_packages", AfterUpdateFailure)
  /\ UNCHANGED <<disk, sentinel, config, done, uv, orig,
                 typedVersion, python_package_name>>

\* The packages edit, for the "package" structure only.
Update_SetPackages ==
  /\ pc = "edit_packages"
  /\ IF config.structure = "package"
       THEN EditEffect(SetPackages(content, config.package_name), "packages",
                       "open", AfterUpdateFailure)
       ELSE /\ pc' = "open"
            /\ UNCHANGED <<content, prev, lastEdit, raised, out>>
  /\ UNCHANGED <<disk, sentinel, config, done, uv, orig,
                 typedVersion, python_package_name>>

\* open(pyproject_path, "w"): the file is truncated, or opening raises and the
\* file stays as it was.
Update_OpenForWrite ==
  /\ pc = "open"
  /\ \E ok \in BOOLEAN :
       IF ok
         THEN /\ disk' = File(<<>>)
              /\ out' = out
              /\ pc' = "write"
         ELSE /\ disk' = disk
              /\ out' = out \cup {"update_failed"}
              /\ pc' = AfterUpdateFailure
  /\ UNCHANGED <<sentinel, config, content, prev, lastEdit, raised, done, uv,
                 orig,
                 typedVersion, python_package_name>>

\* f.write(content) and the close of the file: all of content reaches the
\* file, or writing raises (no space, an I/O error) with nothing or only a
\* part of it written.
Update_Write ==
  /\ pc = "write"
  /\ \E ok \in BOOLEAN, part \in {0, Len(content) \div 2} :
       IF ok
         THEN /\ disk' = File(content)
              /\ out' = out \cup {"updated"}
              /\ done' = done \cup {"update"}
              /\ pc' = "structure"
         ELSE /\ disk' = File(Slice(content, 1, part))
              /\ out' = out \cup {"update_failed"}
              /\ done' = done
              /\ pc' = AfterUpdateFailure
  /\ UNCHANGED <<sentinel, config, content, prev, lastEdit, raised, uv, orig,
                 typedVersion, python_package_name>>

(***************************************************************************)
(* The remaining steps of initialize_project, and the end of run.          *)
(***************************************************************************)
\* One of the calls that follow update_pyproject_toml in initialize_project:
\* it returns, or it raises (a directory or a file cannot be made), which
\* nothing catches, and the interpreter prints the traceback.
SetupStep(at, step, next) ==
  /\ pc = at
  /\ \E ok \in BOOLEAN :
       IF ok
         THEN /\ done' = done \cup {step}
              /\ out' = out
              /\ pc' = next
         ELSE /\ done' = done
              /\ out' = out \cup {"traceback"}
              /\ pc' = "crashed"
  /\ UNCHANGED <<disk, config, content, prev, lastEdit, raised, uv, orig,
                 typedVersion>>

\* create_project_structure: the package directory and the import statements
\* take the name pythonize_package_name returns.
CreateProjectStructure ==
  /\ SetupStep("structure", "structure", "towncrier")
  /\ python_package_name' = pythonize_package_name(config.package_name)
  /\ UNCHANGED sentinel

SetupTowncrier ==
  /\ SetupStep("towncrier", "towncrier", "envrc")
  /\ UNCHANGED <<sentinel, python_package_name>>

CreateEnvrcExample ==
  /\ SetupStep("envrc", "envrc", "sentinel")
  /\ UNCHANGED <<sentinel, python_package_name>>

\* self.sentinel_file.touch()
TouchSentinel ==
  /\ SetupStep("sentinel", "sentinel", "complete")
  /\ sentinel' = (sentinel \/ pc' = "complete")
  /\ UNCHANGED python_package_name

\* run, after initialize_project returned: the closing messages.
PrintComplete ==
  /\ pc = "complete"
  /\ out' = out \cup {"complete", "next_steps"}
  /\ pc' = "exit"
  /\ UNCHANGED <<disk, sentinel, config, content, prev, lastEdit, raised,
                 done, uv, orig,
                 typedVersion, python_package_name>>

(***************************************************************************)
(* The run of the script.                                                  *)
(***************************************************************************)
Init ==
  /\ pc = "run"
  /\ disk \in {NoFile} \cup {File(d) : d \in RunDocs}
  /\ sentinel \in BOOLEAN
  /\ config = NoConfig
  /\ content = <<>>
  /\ prev = <<>>
  /\ lastEdit = "none"
  /\ raised = FALSE
  /\ done = {}
  /\ out = {}
  /\ uv = "none"
  /\ orig = <<>>
  /\ typedVersion = <<>>
  /\ python_package_name = <<>>

Next ==
  \/ Run_CheckInitialized
  \/ Confirm
  \/ GatherProjectConfig
  \/ UvInit
  \/ SkipUvInit
  \/ Update_Read
  \/ Update_SetName
  \/ Update_SetDescription
  \/ Update_SetRequiresPython
  \/ Update_SetAuthors
  \/ Update_SetPackage
  \/ Update_SetPackages
  \/ Update_OpenForWrite
  \/ Update_Write
  \/ CreateProjectStructure
  \/ SetupTowncrier
  \/ CreateEnvrcExample
  \/ TouchSentinel
  \/ PrintComplete

Spec == Init /\ [][Next]_vars

(***************************************************************************)
(* The edits one at a time: each is applied once, to a document and to     *)
(* operator input drawn from the bounded sets.                             *)
(***************************************************************************)
EditInit ==
  /\ pc = "edit"
  /\ content \in EditDocs
  /\ prev = content
  /\ disk = NoFile
  /\ sentinel = FALSE
  /\ config = NoConfig
  /\ lastEdit = "none"
  /\ raised = FALSE
  /\ done = {}
  /\ out = {}
  /\ uv = "none"
  /\ orig = <<>>
  /\ typedVersion = <<>>
  /\ python_package_name = <<>>

Apply(r, edit) ==
  /\ pc = "edit"
  /\ EditEffect(r, edit, "edited", "edited")
  /\ UNCHANGED <<disk, sentinel, done, uv, orig, python_package_name>>

Edit_SetName ==
  \E name \in NameAnswers :
    /\ config' = [config EXCEPT !.name = name]
    /\ Apply(SetName(content, name), "name")
    /\ UNCHANGED typedVersion

Edit_SetDescription ==
  \E description \in DescriptionAnswers :
    /\ config' = [config EXCEPT !.description = description]
    /\ Apply(SetDescription(content, description), "description")
    /\ UNCHANGED typedVersion

\* The requires-python edit with the version get_python_version returns for
\* the line typed.
Edit_SetRequiresPython ==
  \E line \in VersionLines :
    LET version == get_python_version(line, CurrentVersion)
    IN  /\ typedVersion' = line
        /\ config' = [config EXCEPT !.python_version = version]
        /\ Apply(SetRequiresPython(content, version), "requires")

Edit_SetAuthors ==
  \E author \in AuthorAnswers, email \in EmailAnswers :
    /\ config' = [config EXCEPT !.author = author, !.email = email]
    /\ Apply(SetAuthors(content, author, email), "authors")
    /\ UNCHANGED typedVersion

Edit_SetPackage ==
  \E package_name \in PackageAnswers :
    /\ config' = [config EXCEPT !.package_name = package_name]
    /\ Apply(SetPackage(content, package_name), "package")
    /\ UNCHANGED typedVersion

Edit_SetPackages ==
  \E package_name \in PackageAnswers :
    /\ config' = [config EXCEPT !.package_name = package_name,
                                !.structure = "package"]
    /\ Apply(SetPackages(content, package_name), "packages")
    /\ UNCHANGED typedVersion

EditNext ==
  \/ Edit_SetName
  \/ Edit_SetDescription
  \/ Edit_SetRequiresPython
  \/ Edit_SetAuthors
  \/ Edit_SetPackage
  \/ Edit_SetPackages

EditSpec == EditInit /\ [][EditNext]_vars

(***************************************************************************)
(* Properties.                                                             *)
(***************************************************************************)
\* update_pyproject_toml's edits as one function of the text read: the text it
\* goes on to write, or the exception that ends it.
UpdatedContent(text, cfg) ==
  LET a == SetName(text, cfg.name)
      b == IF a.err THEN a ELSE SetDescription(a.text, cfg.description)
      c == IF b.err THEN b ELSE SetRequiresPython(b.text, cfg.python_version)
      d == IF c.err THEN c ELSE SetAuthors(c.text, cfg.author, cfg.email)
      e == IF d.err THEN d ELSE SetPackage(d.text, cfg.package_name)
  IN  IF e.err \/ cfg.structure # "package"
        THEN e
        ELSE SetPackages(e.text, cfg.package_name)

\* Whether the pattern of an edit occurs in a document.
Occurs(edit, doc) ==
  CASE edit = "name" -> Search(LineAssignMatches(doc, kName, 1)) # 0
    [] edit = "description" -> Search(LineAssignMatches(doc, kDescription, 0)) # 0
    [] edit = "requires" -> Search(LineAssignMatches(doc, kRequiresPython, 1)) # 0
    [] edit = "authors" -> Search(BracketAssignMatches(doc, kAuthors)) # 0
    [] edit = "package" -> Search(QuotedAssignMatches(doc, kPackage, 1)) # 0
    [] edit = "packages" ->
         IF Contains(doc, kPackagesLiteral)
           THEN Search(BracketAssignMatches(doc, kPackages)) # 0
           ELSE Search(ProjectSectionMatches(doc)) # 0
    [] OTHER -> FALSE

\* update_pyproject_toml has come to its end, by its last statement or by its
\* except clause.
UpdateEnded == "updated" \in out \/ "update_failed" \in out

UvFailed == uv \in {"CalledProcessError", "OSError"}

\* update_pyproject_toml failed at reading or writing the file, not at an
\* edit.
IoFailed == "update_failed" \in out /\ ~raised

\* The calls that follow update_pyproject_toml, in their order.
SetupOrder == <<"structure", "towncrier", "envrc", "sentinel">>

StepsInOrder ==
  \A i \in 2..Len(SetupOrder) : SetupOrder[i] \in done => SetupOrder[i - 1] \in done

\* C1: the name edit, and the description edit, when it returns, has changed
\* at most one line of the document, every other line staying as it was; after
\* the name edit a document that held a name = "..." line holds the line
\* name = "<the value written>".
C1_ScalarEditChangesOneLine ==
  (lastEdit \in {"name", "description"} /\ ~raised) =>
    LET before == SplitLines(prev)
        after == SplitLines(content)
    IN  /\ Len(after) = Len(before)
        /\ Cardinality({i \in 1..Len(before) : after[i] # before[i]}) <= 1
        /\ (lastEdit = "name" /\ Occurs("name", prev)) =>
             \E i \in 1..Len(after) : after[i] = NameTemplate(slugify(config.name))

\* C2: on a document with no packages key, the packages edit inserts the text
\* packages = [{include = "<package name>"}] as a line of its own at the end of
\* the [project] section (only blank lines between it and the next section
\* header or the end of the document), and changes nothing else.
C2_PackagesLineInserted ==
  (lastEdit = "packages" /\ ~Contains(prev, kPackages)) =>
    /\ ~raised
    /\ \E k \in Len(HeaderLine)..Len(prev) :
         /\ content = Slice(prev, 1, k)
                        \o PackagesTemplate(config.package_name)
                        \o Slice(prev, k + 1, Len(prev))
         /\ prev[k] = "\n"
         /\ k = Len(prev) \/ prev[k + 1] = "\n"
         /\ \A j \in 2..k : ~(prev[j] = "[" /\ prev[j - 1] = "\n")
         /\ LET n == SkipSpace(prev, k + 1)
            IN  n > Len(prev) \/ prev[n] = "["

\* C3: the package-key edit alters only the first line that starts with
\* package = "...", which it sets to the new package name; every other line
\* stays as it was.
C3_PackageKeyFirstLineOnly ==
  lastEdit = "package" =>
    LET before == SplitLines(prev)
        after == SplitLines(content)
        keyLines == {i \in 1..Len(before) :
                       QuotedAssignAt(before[i], 1, kPackage, 1).end > 0}
    IN  /\ ~raised
        /\ Len(after) = Len(before)
        /\ \A i \in 1..Len(before) :
             after[i] # before[i] =>
               /\ i \in keyLines
               /\ \A j \in keyLines : i <= j
               /\ after[i] = PackageTemplate(config.package_name)

\* C4: on a document with an authors = [ ... ] block, the authors edit puts
\* authors = [ { name = "<author>", email = "<email>" } ] in the place of the
\* whole block, leaves everything outside it as it was, and the document then
\* holds one authors block.
C4_AuthorsBlockReplaced ==
  (lastEdit = "authors" /\ Occurs("authors", prev)) =>
    LET matches == BracketAssignMatches(prev, kAuthors)
        i == Search(matches)
    IN  /\ ~raised
        /\ content = Slice(prev, 1, i - 1)
                       \o AuthorsTemplate(config.author, config.email)
                       \o Slice(prev, matches[i].end + 1, Len(prev))
        /\ Cardinality({k \in 1..Len(content) : HasAt(content, k, kAuthors)}) = 1

\* C5: the packages edit applied again, with the same package name, to the
\* document it produced yields that document.
C5_PackagesEditIdempotent ==
  (lastEdit = "packages" /\ ~raised) =>
    SetPackages(content, config.package_name) = Returned(content)

\* C6: after the name edit of a document that has a name line, get_project_name
\* reads back the project name the operator entered; after the description
\* edit of a document that has a description line, the description pattern
\* reads back the description entered.
C6_ScalarRoundTrip ==
  /\ (lastEdit = "name" /\ Occurs("name", prev)) =>
       (~raised /\ get_project_name(content) = config.name)
  /\ (lastEdit = "description" /\ Occurs("description", prev)) =>
       (~raised /\ ReadDescription(content) = config.description)

\* C7: an edit whose pattern does not occur in the document raises nothing and
\* leaves the document as it was (so the edits after it and the write follow).
C7_PatternNotFoundIsSkipped ==
  (lastEdit # "none" /\ ~Occurs(lastEdit, prev)) =>
    (~raised /\ content = prev)

\* C8: once update_pyproject_toml has ended, pyproject.toml holds the text it
\* held before or that text with all the edits applied.
C8_NoPartialEditPersisted ==
  UpdateEnded =>
    \/ disk.text = orig
    \/ /\ ~UpdatedContent(orig, config).err
       /\ disk.text = UpdatedContent(orig, config).text

\* C9: when pyproject.toml was missing and uv init failed, nothing of the
\* initialization follows: the document is neither read nor edited nor
\* written, no setup step runs and the sentinel file is not touched.
C9_UvFailureAbortsInitialization ==
  UvFailed =>
    /\ done = {}
    /\ lastEdit = "none"
    /\ content = <<>>
    /\ ~UpdateEnded
    /\ disk \in {NoFile, File(UvInitDoc)}
    /\ pc \in {"complete", "exit", "crashed"}

\* A run in which uv init exited with an error has come to its end.
C9_Witness == uv = "CalledProcessError" /\ pc = "exit" /\ disk = NoFile

\* C10: a run in which uv init failed never prints that the initialization is
\* complete, nor the next steps.
C10_FailureNeverReportsComplete ==
  UvFailed => ("complete" \notin out /\ "next_steps" \notin out)



\* C11: when reading or writing pyproject.toml raises inside
\* update_pyproject_toml, the exception is caught and reported (no traceback,
\* the run does not end there) and control goes on to
\* create_project_structure; from there each step the run takes carries out
\* the next of create_project_structure, setup_towncrier,
\* create_envrc_example and the sentinel's creation, in that order, unless
\* that step raises of its own, and the run comes to its end only with all
\* four carried out.
C11_IOFailureContained ==
  /\ [][(IoFailed' /\ ~IoFailed) =>
         (pc' = "structure" /\ "traceback" \notin out' /\ done' \subseteq {"update"})]_vars
  /\ [][(IoFailed /\ pc \in Range(SetupOrder) /\ "traceback" \notin out') =>
         (done' = done \cup {pc} /\ pc \notin done)]_vars
  /\ [](IoFailed =>
         /\ StepsInOrder
         /\ pc \in Range(SetupOrder) \cup {"complete", "exit", "crashed"}
         /\ pc = "crashed" => "traceback" \in out
         /\ pc \in {"complete", "exit"} => (Range(SetupOrder) \subseteq done /\ sentinel))

C11_Witness ==
  /\ IoFailed
  /\ disk = File(<<>>)
  /\ Range(SetupOrder) \subseteq done
  /\ sentinel
  /\ pc = "exit"

\* The form 3.<digits>: "3.", then one or more of the digits 0-9.
IsThreeDotDigits(v) ==
  /\ Len(v) >= 3
  /\ v[1] = "3"
  /\ v[2] = "."
  /\ \A k \in 3..Len(v) : v[k] \in Digits

\* C12: for every line typed at the Python-version prompt, the
\* requires-python edit on a document that has a requires-python = "..." line
\* raises nothing and leaves the line requires-python = ">=V", where V is the
\* line typed (stripped) when that has the form 3.<digits>, and 3.12 for
\* every other line; V has the form 3.<digits>.
C12_RequiresPythonFromPrompt ==
  (lastEdit = "requires" /\ Occurs("requires", prev)) =>
    LET entered == Strip(typedVersion)
        V == IF IsThreeDotDigits(entered) THEN entered ELSE kDefaultVersion
        after == SplitLines(content)
    IN  /\ ~raised
        /\ IsThreeDotDigits(config.python_version)
        /\ \E i \in 1..Len(after) :
             after[i] = kRequiresPython \o <<" ", "=", " ", "\"", ">", "=">>
                          \o V \o <<"\"">>

\* A Python identifier: not empty, only letters, digits and underscores, not
\* starting with a digit.
IsIdentifier(v) ==
  /\ v # <<>>
  /\ \A k \in 1..Len(v) : IsLetter(v[k]) \/ IsDigit(v[k]) \/ v[k] = "_"
  /\ ~IsDigit(v[1])

\* C13: once create_project_structure has made the package directory and
\* written the import statements, the name it used for them, which
\* pythonize_package_name returned for the package name of the run, is a
\* valid Python identifier.
C13_PackageNameIsIdentifier ==
  "structure" \in done => IsIdentifier(python_package_name)

====
